---- MODULE Spec2Model ----
(***************************************************************************)
(* Founder-movement tracker: the profile store, the change log and the     *)
(* add / refresh / batch operations of ProfileService, with the pure       *)
(* helpers they call (URL validation, normalisation of a raw provider      *)
(* record, role-change detection, founder classification, insight text).   *)
(*                                                                         *)
(* A string value is held as a string; Chars gives its characters, and     *)
(* lower-casing, substring search and the URL pattern are computed on     *)
(* the characters.                                                         *)
(* An optional value (Python None) is the empty sequence, a present value  *)
(* v is the one-element sequence <<v>>.                                    *)
(***************************************************************************)
EXTENDS Integers, Sequences, FiniteSets, TLC

(***************************************************************************)
(* Bounds of the model                                                     *)
(***************************************************************************)
\* tasks (single calls and batch members) started in one session
MaxTasks == 3

(***************************************************************************)
(* String constants                                                        *)
(***************************************************************************)
EmptyStr == ""
U1 == "https://www.linkedin.com/in/t-1"
U2 == "http://linkedin.com/in/a_b/"
BadUrl == "not-a-url"
ProductManager == "Product Manager"
FounderCEO == "Founder & CEO"
BigTech == "BigTech"
TestStartup == "Test Startup"
StealthStartup == "Stealth Startup"
NameTest == "Test"
NameUser == "User"

\* the characters of a string value
Chars(s) ==
    CASE s = EmptyStr -> <<>>
      [] s = U1 -> <<"h","t","t","p","s",":","/","/","w","w","w",".","l","i","n","k","e","d","i","n",".","c","o","m","/","i","n","/","t","-","1">>
      [] s = U2 -> <<"h","t","t","p",":","/","/","l","i","n","k","e","d","i","n",".","c","o","m","/","i","n","/","a","_","b","/">>
      [] s = BadUrl -> <<"n","o","t","-","a","-","u","r","l">>
      [] s = ProductManager -> <<"P","r","o","d","u","c","t"," ","M","a","n","a","g","e","r">>
      [] s = FounderCEO -> <<"F","o","u","n","d","e","r"," ","&"," ","C","E","O">>
      [] s = BigTech -> <<"B","i","g","T","e","c","h">>
      [] s = TestStartup -> <<"T","e","s","t"," ","S","t","a","r","t","u","p">>
      [] s = StealthStartup -> <<"S","t","e","a","l","t","h"," ","S","t","a","r","t","u","p">>
      [] s = NameTest -> <<"T","e","s","t">>
      [] s = NameUser -> <<"U","s","e","r">>

KwFounder == <<"f","o","u","n","d","e","r">>
KwCoFounder == <<"c","o","-","f","o","u","n","d","e","r">>
KwCofounder == <<"c","o","f","o","u","n","d","e","r">>
KwCeo == <<"c","e","o">>
KwChiefExecutive == <<"c","h","i","e","f"," ","e","x","e","c","u","t","i","v","e">>
KwOwner == <<"o","w","n","e","r">>
KwEntrepreneur == <<"e","n","t","r","e","p","r","e","n","e","u","r">>
KwCreator == <<"c","r","e","a","t","o","r">>
KwStealth == <<"s","t","e","a","l","t","h">>
KwBuilding == <<"b","u","i","l","d","i","n","g">>
KwLaunching == <<"l","a","u","n","c","h","i","n","g">>
KwStarting == <<"s","t","a","r","t","i","n","g">>

(***************************************************************************)
(* str.lower() and the `in` substring test                                 *)
(***************************************************************************)
UpperCase == <<"A","B","C","D","E","F","G","H","I","J","K","L","M","N","O","P","Q","R","S","T","U","V","W","X","Y","Z">>
LowerCase == <<"a","b","c","d","e","f","g","h","i","j","k","l","m","n","o","p","q","r","s","t","u","v","w","x","y","z">>
Digits == {"0","1","2","3","4","5","6","7","8","9"}

Range(s) == {s[i] : i \in DOMAIN s}

LowerChar(c) ==
    IF \E i \in 1..26 : UpperCase[i] = c
    THEN LowerCase[CHOOSE i \in 1..26 : UpperCase[i] = c]
    ELSE c

RECURSIVE Lower(_)
Lower(s) == IF s = <<>> THEN <<>> ELSE <<LowerChar(Head(s))>> \o Lower(Tail(s))

\* Python `k in s` for strings
Contains(s, k) ==
    \E i \in 1..(Len(s) - Len(k) + 1) : SubSeq(s, i, i + Len(k) - 1) = k

StartsWith(s, p) == Len(s) >= Len(p) /\ SubSeq(s, 1, Len(p)) = p

Drop(s, n) == SubSeq(s, n + 1, Len(s))

(***************************************************************************)
(* validators.validate_linkedin_url                                        *)
(*   ^https?://(www\.)?linkedin\.com/in/[\w\-_]+/?$                        *)
(***************************************************************************)
\* stands for one letter outside ASCII (U+00E9): \w of a str pattern is
\* Unicode-aware
NonAsciiLetter == "U+00E9"

IsWordChar(c) ==
    \/ c \in Range(UpperCase)
    \/ c \in Range(LowerCase)
    \/ c \in Digits
    \/ c = "_"
    \/ c = NonAsciiLetter

IsSlugChar(c) == IsWordChar(c) \/ c = "-"

\* [\w\-_]+/?$ : `$` also matches just before one trailing newline
MatchSlugTail(s) ==
    \E n \in 1..Len(s) :
        /\ \A i \in 1..n : IsSlugChar(s[i])
        /\ Drop(s, n) \in { <<>>, <<"/">>, <<"\n">>, <<"/","\n">> }

MatchHost(s) ==
    LET host == <<"l","i","n","k","e","d","i","n",".","c","o","m","/","i","n","/">>
        www == <<"w","w","w",".">>
    IN \/ StartsWith(s, host) /\ MatchSlugTail(Drop(s, Len(host)))
       \/ /\ StartsWith(s, www)
          /\ StartsWith(Drop(s, Len(www)), host)
          /\ MatchSlugTail(Drop(s, Len(www) + Len(host)))

\* validate_linkedin_url on the characters of its argument
validate_linkedin_text(text) ==
    LET http == <<"h","t","t","p">>
        sep == <<":","/","/">>
    IN IF text = <<>> THEN FALSE
       ELSE /\ StartsWith(text, http)
            /\ LET r == Drop(text, Len(http))
               IN \/ StartsWith(r, sep) /\ MatchHost(Drop(r, Len(sep)))
                  \/ /\ StartsWith(r, <<"s">>)
                     /\ StartsWith(Drop(r, 1), sep)
                     /\ MatchHost(Drop(r, 1 + Len(sep)))

validate_linkedin_url(url) == validate_linkedin_text(Chars(url))

(***************************************************************************)
(* Raw provider payloads (the dict handed back by                          *)
(* get_linkedin_profile_data) and their date fields                        *)
(***************************************************************************)
\* a JSON date field: absent/null, a number, a numeric string, or a string
\* that is not a number
DNone == [k |-> "none", n |-> 0]
DInt(n) == [k |-> "int", n |-> n]
DNumStr(n) == [k |-> "numstr", n |-> n]
DBad == [k |-> "bad", n |-> 0]

\* Python truthiness of a date field
Truthy(v) == (v.k = "int" /\ v.n # 0) \/ v.k = "numstr" \/ v.k = "bad"

\* int(v) raises ValueError on a string that is not a number
IntRaises(v) == v.k = "bad"
IntOf(v) == v.n

Exp(title, company, cur, ey, em, sy, sm) ==
    [title |-> title, company |-> company, is_current |-> cur,
     end_year |-> ey, end_month |-> em, start_year |-> sy, start_month |-> sm]

Payload(kind, jt, co, fn, ln, exps) ==
    [kind |-> kind, job_title |-> jt, company |-> co,
     first_name |-> fn, last_name |-> ln, experiences |-> exps]

\* {"error": True, "message": ...}
ErrorPayload == Payload("error", EmptyStr, EmptyStr, EmptyStr, EmptyStr, <<>>)
\* {} : every .get() falls back to its default
EmptyPayload == Payload("empty", EmptyStr, EmptyStr, EmptyStr, EmptyStr, <<>>)

PastPM == Exp(ProductManager, BigTech, FALSE, DInt(2023), DInt(5), DInt(2020), DInt(3))
CurFounder == Exp(FounderCEO, TestStartup, TRUE, DNone, DNone, DInt(2023), DInt(6))
PastOld == Exp(FounderCEO, StealthStartup, FALSE, DNone, DNone, DInt(2019), DNone)
PastBad == Exp(ProductManager, BigTech, FALSE, DBad, DNone, DInt(2020), DNone)

RecPM == Payload("record", ProductManager, BigTech, NameTest, NameUser, <<>>)
RecFounder == Payload("record", FounderCEO, TestStartup, NameTest, NameUser, <<CurFounder, PastOld, PastPM>>)
RecFounderNoCo == Payload("record", FounderCEO, EmptyStr, NameTest, NameUser, <<PastPM>>)
RecStealthCo == Payload("record", ProductManager, StealthStartup, NameTest, NameUser, <<>>)
RecBadDate == Payload("record", FounderCEO, TestStartup, NameTest, NameUser, <<PastBad>>)

\* what one provider call can hand back
Payloads == {RecPM, RecFounder, RecFounderNoCo, RecStealthCo,
             RecBadDate, ErrorPayload, EmptyPayload}

(***************************************************************************)
(* ProfileService.process_linkedin_profile                                 *)
(***************************************************************************)
\* [exp for exp in experiences if not exp.get("is_current")]
PastExperiences(exps) == SelectSeq(exps, LAMBDA e : ~e.is_current)

\* one component of the sort key: the end field if truthy, else the start
\* field if truthy, else 0
KeyPartRaises(endv, startv) ==
    IF Truthy(endv) THEN IntRaises(endv)
    ELSE IF Truthy(startv) THEN IntRaises(startv) ELSE FALSE

KeyPart(endv, startv) ==
    IF Truthy(endv) THEN IntOf(endv)
    ELSE IF Truthy(startv) THEN IntOf(startv) ELSE 0

SortKeyRaises(e) ==
    \/ KeyPartRaises(e.end_year, e.start_year)
    \/ KeyPartRaises(e.end_month, e.start_month)

SortKey(e) ==
    <<KeyPart(e.end_year, e.start_year), KeyPart(e.end_month, e.start_month)>>

KeyLess(a, b) == a[1] < b[1] \/ (a[1] = b[1] /\ a[2] < b[2])

\* sorted(..., reverse=True)[0] : sorting is stable, so of the entries with
\* the largest key the one that comes first in the list is taken
MostRecentPast(past) ==
    LET i == CHOOSE i \in DOMAIN past :
                 /\ \A j \in DOMAIN past : ~KeyLess(SortKey(past[i]), SortKey(past[j]))
                 /\ \A j \in 1..(i - 1) : KeyLess(SortKey(past[j]), SortKey(past[i]))
    IN past[i]

\* the call raises (ValueError out of the sort key)
ProcessRaises(data) ==
    \E i \in DOMAIN PastExperiences(data.experiences) :
        SortKeyRaises(PastExperiences(data.experiences)[i])

process_linkedin_profile(linkedin_url, data, t) ==
    LET past == PastExperiences(data.experiences)
        prev == IF past # <<>> THEN MostRecentPast(past)
                ELSE Exp(EmptyStr, EmptyStr, FALSE, DNone, DNone, DNone, DNone)
    IN [linkedin_url |-> linkedin_url,
        first_name |-> data.first_name,
        last_name |-> data.last_name,
        current_title |-> data.job_title,
        current_company |-> data.company,
        previous_title |-> prev.title,
        previous_company |-> prev.company,
        last_checked_date |-> t,
        tracking_status |-> "Active",
        outreach_status |-> "Not contacted"]

(***************************************************************************)
(* models.profile.Profile                                                  *)
(***************************************************************************)
FounderKeywords == <<KwFounder, KwCoFounder, KwCofounder, KwCeo,
                     KwChiefExecutive, KwOwner, KwEntrepreneur, KwCreator>>
StealthKeywords == <<KwStealth, KwBuilding, KwLaunching, KwStarting>>

\* has_changed_roles that reports every refresh of a stored snapshot
has_changed_roles_always(new, previous_data) ==
    previous_data # <<>>

\* Profile.has_changed_roles(previous_data); previous_data is optional
has_changed_roles(new, previous_data) ==
    IF previous_data = <<>> THEN FALSE
    ELSE LET prev == previous_data[1]
             title_changed == prev.current_title # new.current_title
                              /\ new.current_title # EmptyStr
             company_changed == prev.current_company # new.current_company
                                /\ new.current_company # EmptyStr
         IN title_changed \/ company_changed

\* the two keyword loops of Profile.is_founder()
TitleIsFounder(title_lower) ==
    \/ \E i \in DOMAIN FounderKeywords : Contains(title_lower, FounderKeywords[i])
    \/ \E i \in DOMAIN StealthKeywords : Contains(title_lower, StealthKeywords[i])

\* Profile.is_founder()
is_founder(p) ==
    IF p.current_title = EmptyStr THEN FALSE
    ELSE TitleIsFounder(Lower(Chars(p.current_title)))

(***************************************************************************)
(* models.change.Change                                                    *)
(***************************************************************************)
\* the text of an insight: the empty string, one of the four canned
\* sentences filled in from the profile, a completion of the text
\* generator, or the "Unable to generate insight" message
NoText == [kind |-> "empty", idx |-> 0, first_name |-> EmptyStr,
           current_company |-> EmptyStr, previous_company |-> EmptyStr,
           previous_title |-> EmptyStr]

IsEmptyText(x) == x.kind = "empty"

\* Change.__init__ ; change_id is optional
Change(linkedin_url, old_title, new_title, old_company, new_company, t, founder, insight) ==
    [change_id |-> <<>>,
     linkedin_url |-> linkedin_url,
     old_title |-> old_title,
     new_title |-> new_title,
     old_company |-> old_company,
     new_company |-> new_company,
     detected_date |-> t,
     is_founder_change |-> founder,
     ai_insight |-> insight,
     notification_sent |-> FALSE]

\* Change.from_profile_comparison
from_profile_comparison(linkedin_url, old_profile, new_profile, founder, t) ==
    Change(linkedin_url, old_profile.current_title, new_profile.current_title,
           old_profile.current_company, new_profile.current_company, t, founder, NoText)

\* Change.is_title_change
is_title_change(c) ==
    c.old_title # c.new_title /\ c.old_title # EmptyStr /\ c.new_title # EmptyStr

\* Change.is_company_change
is_company_change(c) ==
    c.old_company # c.new_company /\ c.old_company # EmptyStr /\ c.new_company # EmptyStr

\* str(b).lower()
BoolStr(b) == IF b THEN "true" ELSE "false"

\* Change.to_dict : the flags become strings, change_id is left out when unset
to_dict(c) ==
    [c EXCEPT !.is_founder_change = BoolStr(c.is_founder_change),
              !.notification_sent = BoolStr(c.notification_sent)]

(***************************************************************************)
(* services.change_detector.ChangeDetector                                 *)
(***************************************************************************)
\* Settings.get_founder_keywords() of the default FOUNDER_KEYWORDS
SettingsFounderKeywords ==
    << <<"F","o","u","n","d","e","r">>,
       <<"C","o","-","f","o","u","n","d","e","r">>,
       <<"C","E","O">>,
       <<"C","h","i","e","f"," ","E","x","e","c","u","t","i","v","e"," ","O","f","f","i","c","e","r">>,
       <<"E","n","t","r","e","p","r","e","n","e","u","r">>,
       <<"C","r","e","a","t","o","r">>,
       <<"S","t","e","a","l","t","h">>,
       <<"B","u","i","l","d","i","n","g">> >>

\* the stealth_keywords literal of ChangeDetector.is_founder_change
DetectorStealthKeywords ==
    << KwStealth, KwBuilding, KwLaunching, KwStarting, <<"s","t","a","r","t","u","p">> >>

\* the loop of helpers.detect_founder_keywords
AnyKeywordIn(text_lower, keywords) ==
    \E i \in DOMAIN keywords : Contains(text_lower, Lower(keywords[i]))

\* helpers.detect_founder_keywords
detect_founder_keywords(text, keywords) ==
    IF text = EmptyStr \/ keywords = <<>> THEN FALSE
    ELSE AnyKeywordIn(Lower(Chars(text)), keywords)

\* ChangeDetector.is_founder_change
is_founder_change(profile_data) ==
    \/ detect_founder_keywords(profile_data.current_title, SettingsFounderKeywords)
    \/ detect_founder_keywords(profile_data.current_title, DetectorStealthKeywords)
    \/ detect_founder_keywords(profile_data.current_company, DetectorStealthKeywords)

\* detect_change that reports every difference, a new empty value included
detect_change_any_difference(old_profile, new_profile, t) ==
    IF old_profile = <<>> \/ new_profile = <<>> THEN <<>>
    ELSE LET old == old_profile[1]
             new == new_profile[1]
         IN IF old.current_title = new.current_title
               /\ old.current_company = new.current_company
            THEN <<>>
            ELSE << Change(new.linkedin_url, old.current_title, new.current_title,
                           old.current_company, new.current_company, t,
                           is_founder_change(new), NoText) >>

\* ChangeDetector.detect_change ; both arguments and the result are optional
detect_change(old_profile, new_profile, t) ==
    IF old_profile = <<>> \/ new_profile = <<>> THEN <<>>
    ELSE LET old == old_profile[1]
             new == new_profile[1]
             title_changed == old.current_title # new.current_title
                              /\ new.current_title # EmptyStr
             company_changed == old.current_company # new.current_company
                                /\ new.current_company # EmptyStr
         IN IF ~(title_changed \/ company_changed) THEN <<>>
            ELSE << Change(new.linkedin_url, old.current_title, new.current_title,
                           old.current_company, new.current_company, t,
                           is_founder_change(new), NoText) >>

(***************************************************************************)
(* api.openai_api.OpenAIAPI.generate_founder_insight                       *)
(***************************************************************************)
\* ord() of the characters that occur in names
Ord(c) ==
    IF \E i \in 1..26 : UpperCase[i] = c
    THEN 64 + (CHOOSE i \in 1..26 : UpperCase[i] = c)
    ELSE IF \E i \in 1..26 : LowerCase[i] = c
    THEN 96 + (CHOOSE i \in 1..26 : LowerCase[i] = c)
    ELSE IF c = " " THEN 32 ELSE 45

RECURSIVE SumOrd(_)
SumOrd(s) == IF s = <<>> THEN 0 ELSE Ord(Head(s)) + SumOrd(Tail(s))

NumMockInsights == 4

\* MockIndex that hashes the company instead of the name
MockIndex_by_company(p) ==
    IF Chars(p.current_company) # <<>>
    THEN SumOrd(Chars(p.current_company)) % NumMockInsights ELSE 0

\* index of the canned sentence: sum(ord(c) for c in name_str) % 4, 0 for
\* the empty name
MockIndex(p) ==
    LET name_str == Chars(p.first_name) \o Chars(p.last_name)
    IN IF name_str # <<>> THEN SumOrd(name_str) % NumMockInsights ELSE 0

\* mock_insights[index] : sentence 0 names the previous title, the other
\* three do not
MockInsight(p) ==
    [kind |-> "mock", idx |-> MockIndex(p), first_name |-> p.first_name,
     current_company |-> p.current_company,
     previous_company |-> p.previous_company,
     previous_title |-> IF MockIndex(p) = 0 THEN p.previous_title ELSE EmptyStr]

\* a completion of the text generator after .strip()
ApiSentence == [NoText EXCEPT !.kind = "api"]
Strip(completion) == IF completion = "blank" THEN NoText ELSE ApiSentence

\* what the text generator does in one call: no credential / library,
\* building the prompt raises (", ".join(skills) on skills that are not
\* strings), the call raises, a completion of white space only, a sentence
GenOutcomes == {"unavailable", "prompt_raises", "raises", "blank", "sentence"}

\* stands for an exception that leaves OpenAIAPI.generate_founder_insight
RaisedText == [NoText EXCEPT !.kind = "exception"]

\* f"Unable to generate insight: {str(e)}"
UnableText == [NoText EXCEPT !.kind = "unable"]

openai_generate_founder_insight(profile_data, gen) ==
    IF gen = "unavailable" THEN MockInsight(profile_data)
    ELSE IF gen = "prompt_raises" THEN RaisedText
    ELSE IF gen = "raises" THEN MockInsight(profile_data)
    ELSE Strip(gen)

(***************************************************************************)
(* api.session_storage.SessionStorage                                      *)
(***************************************************************************)
\* get_profile : the first stored profile with that url, or None
get_profile(store, linkedin_url) ==
    IF \E i \in DOMAIN store : store[i].linkedin_url = linkedin_url
    THEN <<store[CHOOSE i \in DOMAIN store :
                    /\ store[i].linkedin_url = linkedin_url
                    /\ \A j \in 1..(i - 1) : store[j].linkedin_url # linkedin_url]>>
    ELSE <<>>

\* add_profile without the look-up of an existing entry
storage_add_profile_append(store, profile_data, t) ==
    Append(store, [profile_data EXCEPT !.last_checked_date = t,
                                       !.tracking_status = "Active",
                                       !.outreach_status = "Not contacted"])

\* add_profile : replace the first entry with that url, else append
storage_add_profile(store, profile_data, t) ==
    IF \E i \in DOMAIN store : store[i].linkedin_url = profile_data.linkedin_url
    THEN LET index == CHOOSE i \in DOMAIN store :
                         /\ store[i].linkedin_url = profile_data.linkedin_url
                         /\ \A j \in 1..(i - 1) : store[j].linkedin_url # profile_data.linkedin_url
         IN [store EXCEPT ![index] = [profile_data EXCEPT !.last_checked_date = t]]
    ELSE Append(store, [profile_data EXCEPT !.last_checked_date = t,
                                            !.tracking_status = "Active",
                                            !.outreach_status = "Not contacted"])

MaxOf(S) == IF S = {} THEN 0 ELSE CHOOSE m \in S : \A x \in S : x <= m

\* record_change : a dict without change_id gets max(ids, default 0) + 1
record_change(log, change_data) ==
    IF change_data.change_id = <<>>
    THEN Append(log, [change_data EXCEPT !.change_id =
                         <<MaxOf({log[i].change_id[1] : i \in DOMAIN log}) + 1>>])
    ELSE Append(log, change_data)

\* get_all_changes(is_founder_only) : the stored list itself, or a new list
\* of the records whose flag reads "true"
get_all_changes(log, is_founder_only) ==
    IF ~is_founder_only THEN log
    ELSE SelectSeq(log, LAMBDA c : c.is_founder_change = "true")

\* list.sort(key=detected_date, reverse=True) : records with equal dates
\* keep their order
RECURSIVE SortByDateDesc(_)
SortByDateDesc(list) ==
    IF list = <<>> THEN <<>>
    ELSE LET rest == SortByDateDesc(SubSeq(list, 1, Len(list) - 1))
             x == list[Len(list)]
             before == SelectSeq(rest, LAMBDA c : c.detected_date >= x.detected_date)
             after == SelectSeq(rest, LAMBDA c : c.detected_date < x.detected_date)
         IN before \o <<x>> \o after

\* list[:limit]
Take(list, limit) == SubSeq(list, 1, IF limit < Len(list) THEN limit ELSE Len(list))

\* get_recent_founder_changes that sorts the stored list
get_recent_founder_changes_in_place(log, limit) ==
    [result |-> Take(SortByDateDesc(get_all_changes(log, TRUE)), limit),
     log |-> SortByDateDesc(log)]

\* get_recent_founder_changes(limit) : what it returns, and the stored list
\* after the call
get_recent_founder_changes(log, limit) ==
    [result |-> Take(SortByDateDesc(get_all_changes(log, TRUE)), limit),
     log |-> log]

(***************************************************************************)
(* State                                                                   *)
(***************************************************************************)
VARIABLES
    profiles,   \* st.session_state['profiles'] : list of profile dicts
    changes,    \* st.session_state['changes'] : list of change dicts
    now,        \* the wall clock read by the next datetime.now()
    op,         \* the ProfileService call in progress, "idle" when none
    tasks,      \* one coroutine per url of the call in progress, in list order
    started,    \* number of coroutines started so far
    probe,      \* a call of a pure function: its arguments and its result
    issued,     \* history: the change ids record_change has handed out
    mock_refresh_state  \* ProxycurlAPI._mock_refresh_state : its keys

vars == <<profiles, changes, now, op, tasks, started, probe, issued,
          mock_refresh_state>>

ValidUrls == {U1, U2}
Urls == {U1, U2, BadUrl}

\* the url lists given to the batch operations
BatchInputs == { <<>>, <<U1, U1>>, <<U1, BadUrl, U2>>, <<U2, U1, U1>> }

\* a coroutine of add_profile or refresh_profile
\*   pc       "init" not yet run, "fetching" suspended in the provider call,
\*            "done" returned
\*   path     the method that awaits the provider: refresh_profile delegates
\*            to add_profile for a url that is not tracked
\*   existing refresh_profile's existing_profile
\*   fetched  the provider was called
\*   raised   the provider call raised
\*   payload  optional: what the provider handed back
\*   gen      optional: what the text generator did, when it was called
\*   ok, msg, change   the returned tuple
NewTask(kind, url) ==
    [kind |-> kind, url |-> url, pc |-> "init", path |-> kind,
     existing |-> <<>>, fetched |-> FALSE, raised |-> FALSE, payload |-> <<>>,
     gen |-> <<>>,
     ok |-> FALSE, msg |-> "", change |-> <<>>]

Done(task, ok, msg, change) ==
    [task EXCEPT !.pc = "done", !.ok = ok, !.msg = msg, !.change = change]

\* the ids of the records that log2 has after those of log1
NewIds(log1, log2) ==
    {log2[k].change_id[1] : k \in (Len(log1) + 1)..Len(log2)}

\* no pure function is being called
NoProbe == [fn |-> "none"]

Init ==
    /\ profiles = <<>>
    /\ changes = <<>>
    /\ now = 0
    /\ op = "idle"
    /\ tasks = <<>>
    /\ started = 0
    /\ probe = NoProbe
    /\ issued = {}
    /\ mock_refresh_state = {}

(***************************************************************************)
(* Calls of ProfileService                                                 *)
(***************************************************************************)
BeginCall(name, kind, list) ==
    /\ op = "idle"
    /\ started + Len(list) <= MaxTasks
    /\ op' = name
    /\ tasks' = [i \in DOMAIN list |-> NewTask(kind, list[i])]
    /\ started' = started + Len(list)
    /\ probe' = NoProbe
    /\ UNCHANGED <<profiles, changes, now, issued, mock_refresh_state>>

\* asyncio.run(add_profile(url))
CallAdd(url) == BeginCall("add", "add", <<url>>)

\* asyncio.run(refresh_profile(url))
CallRefresh(url) == BeginCall("refresh", "refresh", <<url>>)

\* batch_add_profiles(linkedin_urls) up to the gather
CallBatchAdd(list) == BeginCall("batch_add", "add", list)

\* if not linkedin_urls: the urls of all stored profiles (None and [] alike)
RefreshList(arg) ==
    IF arg = <<>> \/ arg[1] = <<>>
    THEN [i \in DOMAIN profiles |-> profiles[i].linkedin_url]
    ELSE arg[1]

\* batch_refresh_profiles(linkedin_urls) up to the gather; arg is optional
CallBatchRefresh(arg) == BeginCall("batch_refresh", "refresh", RefreshList(arg))

(***************************************************************************)
(* One coroutine, from its start to the provider call.  gather schedules   *)
(* the coroutines in list order and each runs until it first suspends, so  *)
(* coroutine i starts once all before it have started.  The provider call  *)
(* raises (ValueError, no credential) before it suspends.                  *)
(***************************************************************************)
\* add_profile without the check for an existing profile
StartAdd_refetch(task, provider_raises) ==
    IF ~validate_linkedin_url(task.url)
    THEN Done(task, FALSE, "Invalid LinkedIn URL", <<>>)
    ELSE IF provider_raises
    THEN Done([task EXCEPT !.fetched = TRUE, !.raised = TRUE, !.path = "add"],
              FALSE, "Error adding profile", <<>>)
    ELSE [task EXCEPT !.pc = "fetching", !.fetched = TRUE, !.path = "add"]

\* add_profile up to `await get_linkedin_profile_data`
StartAdd(task, provider_raises) ==
    IF ~validate_linkedin_url(task.url)
    THEN Done(task, FALSE, "Invalid LinkedIn URL", <<>>)
    ELSE IF get_profile(profiles, task.url) # <<>>
    THEN Done(task, TRUE, "already being tracked", <<>>)
    ELSE IF provider_raises
    THEN Done([task EXCEPT !.fetched = TRUE, !.raised = TRUE, !.path = "add"],
              FALSE, "Error adding profile", <<>>)
    ELSE [task EXCEPT !.pc = "fetching", !.fetched = TRUE, !.path = "add"]

\* refresh_profile that fetches an untracked identifier itself
StartRefresh_no_delegate(task, provider_raises) ==
    IF ~validate_linkedin_url(task.url)
    THEN Done(task, FALSE, "Invalid LinkedIn URL", <<>>)
    ELSE IF provider_raises
    THEN Done([task EXCEPT !.existing = get_profile(profiles, task.url),
                           !.fetched = TRUE, !.raised = TRUE],
              FALSE, "Error refreshing profile", <<>>)
    ELSE [task EXCEPT !.pc = "fetching", !.fetched = TRUE,
                      !.existing = get_profile(profiles, task.url)]

\* refresh_profile up to `await get_linkedin_profile_data`
StartRefresh(task, provider_raises) ==
    IF ~validate_linkedin_url(task.url)
    THEN Done(task, FALSE, "Invalid LinkedIn URL", <<>>)
    ELSE LET existing_profile == get_profile(profiles, task.url)
         IN IF existing_profile = <<>>
            THEN StartAdd(task, provider_raises)
            ELSE IF provider_raises
            THEN Done([task EXCEPT !.existing = existing_profile,
                                   !.fetched = TRUE, !.raised = TRUE],
                      FALSE, "Error refreshing profile", <<>>)
            ELSE [task EXCEPT !.pc = "fetching", !.fetched = TRUE,
                              !.existing = existing_profile]

TaskStart(i) ==
    /\ op # "idle"
    /\ i \in DOMAIN tasks
    /\ tasks[i].pc = "init"
    /\ \A j \in 1..(i - 1) : tasks[j].pc # "init"
    /\ \E provider_raises \in BOOLEAN :
          tasks' = [tasks EXCEPT ![i] =
                       IF tasks[i].kind = "add"
                       THEN StartAdd(tasks[i], provider_raises)
                       ELSE StartRefresh(tasks[i], provider_raises)]
    /\ UNCHANGED <<profiles, changes, now, op, started, probe, issued, mock_refresh_state>>

(***************************************************************************)
(* One coroutine, from the provider's answer to its return                 *)
(***************************************************************************)
\* generate_founder_insight without its except clause
generate_founder_insight_no_except(change, profile_data, gen, log) ==
    LET insight == openai_generate_founder_insight(profile_data, gen)
        change2 == [change EXCEPT !.ai_insight = insight]
    IN IF insight = RaisedText
       THEN [change |-> change, log |-> log, ret |-> NoText, raised |-> TRUE]
       ELSE [change |-> change2, log |-> record_change(log, to_dict(change2)),
             ret |-> insight, raised |-> FALSE]

\* InsightGenerator.generate_founder_insight : the Change object after the
\* call, the log after the call, the string returned, and whether an
\* exception left the call
generate_founder_insight(change, profile_data, gen, log) ==
    LET insight == openai_generate_founder_insight(profile_data, gen)
        change2 == [change EXCEPT !.ai_insight = insight]
    IN IF insight = RaisedText
       THEN [change |-> change, log |-> log, ret |-> UnableText, raised |-> FALSE]
       ELSE [change |-> change2, log |-> record_change(log, to_dict(change2)),
             ret |-> insight, raised |-> FALSE]

\* add_profile after the provider call: <<task, profiles>>
FinishAdd(task, data) ==
    LET t == [task EXCEPT !.payload = <<data>>]
    IN IF data.kind = "empty" \/ data.kind = "error"
       THEN <<Done(t, FALSE, "Error fetching profile", <<>>), profiles>>
       ELSE IF ProcessRaises(data)
       THEN <<Done(t, FALSE, "Error adding profile", <<>>), profiles>>
       ELSE <<Done(t, TRUE, "Successfully added profile", <<>>),
              storage_add_profile(profiles,
                  process_linkedin_profile(task.url, data, now), now)>>

\* refresh_profile that writes the profile back only when it detected a change
FinishRefresh_no_write_back(task, data, gen) ==
    LET t == [task EXCEPT !.payload = <<data>>]
    IN IF data.kind = "error"
       THEN <<Done(t, FALSE, "Error fetching profile", <<>>), profiles, changes>>
       ELSE IF ProcessRaises(data)
       THEN <<Done(t, FALSE, "Error refreshing profile", <<>>), profiles, changes>>
       ELSE LET processed_profile == process_linkedin_profile(task.url, data, now)
                stored == storage_add_profile(profiles, processed_profile, now)
            IN IF has_changed_roles(processed_profile, task.existing)
               THEN LET founder == is_founder(processed_profile)
                        change == from_profile_comparison(task.url,
                                      task.existing[1], processed_profile, founder, now)
                        log1 == record_change(changes, to_dict(change))
                        g == generate_founder_insight(change, processed_profile, gen, log1)
                    IN IF founder
                       THEN <<Done([t EXCEPT !.gen = <<gen>>], TRUE,
                                   "Detected role change", <<g.change>>),
                              stored, g.log>>
                       ELSE <<Done(t, TRUE, "Detected role change", <<change>>),
                              stored, log1>>
               ELSE <<Done(t, TRUE, "No changes detected", <<>>), profiles, changes>>

\* refresh_profile after the provider call: <<task, profiles, changes>>
FinishRefresh(task, data, gen) ==
    LET t == [task EXCEPT !.payload = <<data>>]
    IN IF data.kind = "error"
       THEN <<Done(t, FALSE, "Error fetching profile", <<>>), profiles, changes>>
       ELSE IF ProcessRaises(data)
       THEN <<Done(t, FALSE, "Error refreshing profile", <<>>), profiles, changes>>
       ELSE LET processed_profile == process_linkedin_profile(task.url, data, now)
                stored == storage_add_profile(profiles, processed_profile, now)
            IN IF has_changed_roles(processed_profile, task.existing)
               THEN LET founder == is_founder(processed_profile)
                        change == from_profile_comparison(task.url,
                                      task.existing[1], processed_profile, founder, now)
                        log1 == record_change(changes, to_dict(change))
                        g == generate_founder_insight(change, processed_profile, gen, log1)
                    IN IF founder
                       THEN <<Done([t EXCEPT !.gen = <<gen>>], TRUE,
                                   "Detected role change", <<g.change>>),
                              stored, g.log>>
                       ELSE <<Done(t, TRUE, "Detected role change", <<change>>),
                              stored, log1>>
               ELSE <<Done(t, TRUE, "No changes detected", <<>>), stored, changes>>

\* refresh_profile reaches the insight generator with this answer
CallsGenerator(task, data) ==
    /\ data.kind # "error"
    /\ ~ProcessRaises(data)
    /\ has_changed_roles(process_linkedin_profile(task.url, data, now), task.existing)
    /\ is_founder(process_linkedin_profile(task.url, data, now))

\* a suspended coroutine resumes after every coroutine of the gather has
\* run to its first suspension; the provider call has taken time, so the
\* clock read by this step is later than the one read by any step before
TaskFinish(i) ==
    /\ op # "idle"
    /\ i \in DOMAIN tasks
    /\ tasks[i].pc = "fetching"
    /\ \A j \in DOMAIN tasks : tasks[j].pc # "init"
    /\ \E data \in Payloads :
          IF tasks[i].path = "add"
          THEN LET r == FinishAdd(tasks[i], data)
               IN /\ tasks' = [tasks EXCEPT ![i] = r[1]]
                  /\ profiles' = r[2]
                  /\ changes' = changes
          ELSE \E gen \in IF CallsGenerator(tasks[i], data)
                           THEN GenOutcomes ELSE {"unavailable"} :
                  LET r == FinishRefresh(tasks[i], data, gen)
                  IN /\ tasks' = [tasks EXCEPT ![i] = r[1]]
                     /\ profiles' = r[2]
                     /\ changes' = r[3]
    /\ now' = now + 1
    /\ issued' = issued \cup NewIds(changes, changes')
    /\ UNCHANGED <<op, started, probe, mock_refresh_state>>

(***************************************************************************)
(* The call returns                                                        *)
(***************************************************************************)
\* results["details"] : one entry per url, in list order
Details ==
    [i \in DOMAIN tasks |->
        [url |-> tasks[i].url, success |-> tasks[i].ok, message |-> tasks[i].msg,
         change_detected |-> tasks[i].change # <<>>,
         change |-> tasks[i].change]]

\* the loop of batch_add_profiles counting every success as a success
BatchAddResult_success_twice ==
    [op |-> "batch_add", ok |-> TRUE, msg |-> "", change |-> <<>>,
     success |-> Cardinality({i \in DOMAIN tasks : tasks[i].ok}),
     failed |-> Cardinality({i \in DOMAIN tasks : ~tasks[i].ok}),
     already_tracked |-> Cardinality({i \in DOMAIN tasks : tasks[i].ok /\ tasks[i].msg = "already being tracked"}),
     changes_detected |-> 0,
     founder_changes |-> 0,
     details |-> Details]

\* the loop of batch_add_profiles after the gather
BatchAddResult ==
    [op |-> "batch_add", ok |-> TRUE, msg |-> "", change |-> <<>>,
     success |-> Cardinality({i \in DOMAIN tasks : tasks[i].ok /\ tasks[i].msg # "already being tracked"}),
     failed |-> Cardinality({i \in DOMAIN tasks : ~tasks[i].ok}),
     already_tracked |-> Cardinality({i \in DOMAIN tasks : tasks[i].ok /\ tasks[i].msg = "already being tracked"}),
     changes_detected |-> 0,
     founder_changes |-> 0,
     details |-> Details]

\* the loop of batch_refresh_profiles after the gather
BatchRefreshResult ==
    [op |-> "batch_refresh", ok |-> TRUE, msg |-> "", change |-> <<>>,
     success |-> Cardinality({i \in DOMAIN tasks : tasks[i].ok}),
     failed |-> Cardinality({i \in DOMAIN tasks : ~tasks[i].ok}),
     already_tracked |-> 0,
     changes_detected |-> Cardinality({i \in DOMAIN tasks : tasks[i].ok /\ tasks[i].change # <<>>}),
     founder_changes |-> Cardinality({i \in DOMAIN tasks :
                            /\ tasks[i].ok /\ tasks[i].change # <<>>
                            /\ tasks[i].change[1].is_founder_change}),
     details |-> Details]

\* the tuple of a single add_profile / refresh_profile
SingleResult ==
    [op |-> op, ok |-> tasks[1].ok, msg |-> tasks[1].msg,
     change |-> tasks[1].change,
     success |-> 0, failed |-> 0, already_tracked |-> 0,
     changes_detected |-> 0, founder_changes |-> 0, details |-> <<>>]

\* what the call in progress returns once all its coroutines are done
Result ==
    CASE op = "batch_add" -> BatchAddResult
      [] op = "batch_refresh" -> BatchRefreshResult
      [] OTHER -> SingleResult

AllDone == op # "idle" /\ \A i \in DOMAIN tasks : tasks[i].pc = "done"

\* the call hands Result to its caller
Return ==
    /\ AllDone
    /\ op' = "idle"
    /\ tasks' = <<>>
    /\ UNCHANGED <<profiles, changes, now, started, probe, issued, mock_refresh_state>>

\* SessionStorage.clear_storage
clear_storage ==
    /\ op = "idle"
    /\ profiles' = <<>>
    /\ changes' = <<>>
    /\ UNCHANGED <<now, op, tasks, started, probe, issued, mock_refresh_state>>

\* the limits the read operation is called with
Limits == {1, 10}

\* SessionStorage.get_recent_founder_changes(limit), between two calls of
\* the service
ReadRecent(limit) ==
    /\ op = "idle"
    /\ probe' = [fn |-> "get_recent_founder_changes", limit |-> limit,
                 result |-> get_recent_founder_changes(changes, limit).result]
    /\ changes' = get_recent_founder_changes(changes, limit).log
    /\ UNCHANGED <<profiles, now, op, tasks, started, issued, mock_refresh_state>>

Next ==
    \/ \E u \in Urls : CallAdd(u)
    \/ \E u \in Urls : CallRefresh(u)
    \/ \E list \in BatchInputs : CallBatchAdd(list)
    \/ \E arg \in {<<>>} \cup {<<list>> : list \in BatchInputs} : CallBatchRefresh(arg)
    \/ \E i \in 1..MaxTasks : TaskStart(i)
    \/ \E i \in 1..MaxTasks : TaskFinish(i)
    \/ Return
    \/ clear_storage
    \/ \E limit \in Limits : ReadRecent(limit)

Spec == Init /\ [][Next]_vars

\* max_concurrency=1 of ProxycurlAPI.get_profiles_batch
GateSize == 1

(***************************************************************************)
(* SessionStorage called directly: record_change, clear_storage and the    *)
(* read of the recent founder changes                                      *)
(***************************************************************************)
\* largest number of records in the change log
MaxRecords == 3

StorageDates == {0, 1}

\* the dicts handed to record_change: Change.to_dict() of a change that
\* has no id yet
StorageDicts ==
    {to_dict(Change(U1, ProductManager, FounderCEO, BigTech, TestStartup, d, f, NoText)) :
        d \in StorageDates, f \in BOOLEAN}

InitStorage ==
    /\ profiles = <<>>
    /\ changes = <<>>
    /\ now = 0
    /\ op = "idle"
    /\ tasks = <<>>
    /\ started = 0
    /\ probe = NoProbe
    /\ issued = {}
    /\ mock_refresh_state = {}

\* SessionStorage.record_change(change_data)
StorageRecord(change_data) ==
    /\ Len(changes) < MaxRecords
    /\ changes' = record_change(changes, change_data)
    /\ issued' = issued \cup NewIds(changes, changes')
    /\ probe' = NoProbe
    /\ UNCHANGED <<profiles, now, op, tasks, started, mock_refresh_state>>

NextStorage ==
    \/ \E change_data \in StorageDicts : StorageRecord(change_data)
    \/ clear_storage
    \/ \E limit \in Limits : ReadRecent(limit)

SpecStorage == InitStorage /\ [][NextStorage]_vars

(***************************************************************************)
(* InsightGenerator.generate_founder_insight called a number of times on   *)
(* a store that changes between the calls                                  *)
(***************************************************************************)
\* largest number of calls
MaxCalls == 2

InsightProfile(first_name, last_name, company) ==
    [linkedin_url |-> U1, first_name |-> first_name, last_name |-> last_name,
     current_title |-> FounderCEO, current_company |-> company,
     previous_title |-> ProductManager, previous_company |-> BigTech,
     last_checked_date |-> 0, tracking_status |-> "Active",
     outreach_status |-> "Not contacted"]

InsightProfiles ==
    {InsightProfile(NameTest, NameUser, TestStartup),
     InsightProfile(NameUser, NameTest, StealthStartup),
     InsightProfile(NameTest, EmptyStr, TestStartup),
     InsightProfile(EmptyStr, EmptyStr, TestStartup)}

\* the Change of the founder transition into profile_data
InsightChange(profile_data) ==
    Change(profile_data.linkedin_url, ProductManager, profile_data.current_title,
           BigTech, profile_data.current_company, 0, TRUE, NoText)

InitInsight ==
    /\ profiles = <<>>
    /\ changes = <<>>
    /\ now = 0
    /\ op = "idle"
    /\ tasks = <<>>
    /\ started = 0
    /\ probe = [fn |-> "generate_founder_insight", calls |-> <<>>]
    /\ issued = {}
    /\ mock_refresh_state = {}

\* one call; probe.calls keeps the arguments and the outcome of each call
InsightCall(profile_data, gen) ==
    /\ Len(probe.calls) < MaxCalls
    /\ LET g == generate_founder_insight(InsightChange(profile_data),
                                         profile_data, gen, changes)
       IN /\ changes' = g.log
          /\ issued' = issued \cup NewIds(changes, g.log)
          /\ probe' = [probe EXCEPT !.calls = Append(@,
                          [profile_data |-> profile_data, gen |-> gen,
                           ret |-> g.ret, raised |-> g.raised,
                           insight |-> g.change.ai_insight,
                           log_before |-> changes, log_after |-> g.log])]
    /\ UNCHANGED <<profiles, now, op, tasks, started, mock_refresh_state>>

NextInsight ==
    \/ \E profile_data \in InsightProfiles, gen \in GenOutcomes :
          InsightCall(profile_data, gen)
    \/ clear_storage

SpecInsight == InitInsight /\ [][NextInsight]_vars

(***************************************************************************)
(* process_linkedin_profile as a function of the raw record                *)
(***************************************************************************)
\* largest number of experience entries in a raw record
MaxExps == 2

\* experience entries of a raw record: an end year without an end month, a
\* full end date, no end date, the current job, a year that is not a
\* number, numbers given as strings, no date at all
NormEntries ==
    {Exp(ProductManager, BigTech, FALSE, DInt(2023), DNone, DInt(2020), DInt(12)),
     Exp(FounderCEO, StealthStartup, FALSE, DInt(2023), DInt(5), DInt(2021), DInt(1)),
     Exp(ProductManager, TestStartup, FALSE, DNone, DNone, DInt(2023), DInt(5)),
     CurFounder,
     PastBad,
     Exp(FounderCEO, BigTech, FALSE, DNumStr(2022), DNumStr(11), DNone, DNone),
     Exp(ProductManager, StealthStartup, FALSE, DNone, DNone, DNone, DNone)}

RECURSIVE ExpLists(_)
ExpLists(n) ==
    IF n = 0 THEN {<<>>}
    ELSE ExpLists(n - 1) \cup
         {Append(l, e) : l \in {x \in ExpLists(n - 1) : Len(x) = n - 1}, e \in NormEntries}

\* raw records: the top-level job fields supplied or left out
NormRecords ==
    {Payload("record", jt, jt, NameTest, NameUser, exps) :
        jt \in {EmptyStr, ProductManager}, exps \in ExpLists(MaxExps)}

InitNormalize ==
    /\ profiles = <<>>
    /\ changes = <<>>
    /\ now = 0
    /\ op = "idle"
    /\ tasks = <<>>
    /\ started = 0
    /\ issued = {}
    /\ mock_refresh_state = {}
    /\ \E data \in NormRecords :
          probe = [fn |-> "process_linkedin_profile", data |-> data]

\* await self.process_linkedin_profile(linkedin_url, profile_data) : the
\* profile is optional, absent when the call raised
Normalize ==
    /\ probe.fn = "process_linkedin_profile"
    /\ probe' = [fn |-> "processed", data |-> probe.data,
                 raised |-> ProcessRaises(probe.data),
                 profile |-> IF ProcessRaises(probe.data) THEN <<>>
                             ELSE <<process_linkedin_profile(U1, probe.data, now)>>]
    /\ UNCHANGED <<profiles, changes, now, op, tasks, started, issued, mock_refresh_state>>

NextNormalize == Normalize

SpecNormalize == InitNormalize /\ [][NextNormalize]_vars

(***************************************************************************)
(* validate_linkedin_url as a function of its argument                     *)
(***************************************************************************)
\* the argument is put together from six parts, each of which may be what
\* the pattern asks for or something else
UrlLeads == {<<>>, <<" ">>}
UrlSchemes == {<<>>, <<"h","t","t","p">>, <<"h","t","t","p","s">>, <<"f","t","p">>}
UrlSeps == {<<>>, <<":","/","/">>}
UrlWww == {<<>>, <<"w","w","w",".">>}
UrlHosts == {<<>>, <<"l","i","n","k","e","d","i","n",".","c","o","m","/","i","n","/">>,
             <<"l","i","n","k","e","d","i","n",".","c","o","m","/","c","o","m","p","a","n","y","/">>}
UrlSlugs == {<<>>, <<"a","_","b">>, <<"t","-","1">>, <<"Z","9">>,
             <<"j","o","s",NonAsciiLetter>>, <<"a"," ","b">>}
UrlTails == {<<>>, <<"/">>, <<"\n">>, <<"/","/">>, <<"/","x">>}

UrlParts ==
    [lead : UrlLeads, scheme : UrlSchemes, sep : UrlSeps, www : UrlWww,
     host : UrlHosts, slug : UrlSlugs, tail : UrlTails]

UrlText(p) == p.lead \o p.scheme \o p.sep \o p.www \o p.host \o p.slug \o p.tail

InitValidate ==
    /\ profiles = <<>>
    /\ changes = <<>>
    /\ now = 0
    /\ op = "idle"
    /\ tasks = <<>>
    /\ started = 0
    /\ issued = {}
    /\ mock_refresh_state = {}
    /\ \E p \in UrlParts : probe = [fn |-> "validate_linkedin_url", parts |-> p]

Validate ==
    /\ probe.fn = "validate_linkedin_url"
    /\ probe' = [fn |-> "validated", parts |-> probe.parts,
                 valid |-> validate_linkedin_text(UrlText(probe.parts))]
    /\ UNCHANGED <<profiles, changes, now, op, tasks, started, issued, mock_refresh_state>>

NextValidate == Validate

SpecValidate == InitValidate /\ [][NextValidate]_vars

(***************************************************************************)
(* The offline provider: ProxycurlAPI without credential                   *)
(***************************************************************************)
\* an experience entry of the mock record; the dates are optional
\* <<year, month>>
MockExp(title, company, starts_at, ends_at) ==
    [title |-> title, company |-> company, starts_at |-> starts_at, ends_at |-> ends_at]

\* ProxycurlAPI._build_mock_profile
build_mock_profile(linkedin_url, founder) ==
    LET founder_exp == MockExp(FounderCEO, TestStartup, <<2023, 6>>, <<>>)
        pm_exp == MockExp(ProductManager, BigTech, <<2020, 3>>, <<2023, 5>>)
    IN [kind |-> "record", first_name |-> NameTest, last_name |-> NameUser,
        experiences |-> IF founder THEN <<founder_exp, pm_exp>> ELSE <<pm_exp>>]

\* get_profile that does not remember the identifiers it has served
mock_get_profile_forgetful(state, linkedin_url) ==
    IF linkedin_url = EmptyStr
    THEN [result |-> [kind |-> "error"], state |-> state]
    ELSE IF linkedin_url \notin state
    THEN [result |-> build_mock_profile(linkedin_url, FALSE), state |-> state]
    ELSE [result |-> build_mock_profile(linkedin_url, TRUE), state |-> state]

\* ProxycurlAPI.get_profile with api_key None: the answer and the keys of
\* _mock_refresh_state afterwards
mock_get_profile(state, linkedin_url) ==
    IF linkedin_url = EmptyStr
    THEN [result |-> [kind |-> "error"], state |-> state]
    ELSE IF linkedin_url \notin state
    THEN [result |-> build_mock_profile(linkedin_url, FALSE),
          state |-> state \cup {linkedin_url}]
    ELSE [result |-> build_mock_profile(linkedin_url, TRUE), state |-> state]

InitMock ==
    /\ profiles = <<>>
    /\ changes = <<>>
    /\ now = 0
    /\ op = "idle"
    /\ tasks = <<>>
    /\ started = 0
    /\ issued = {}
    /\ mock_refresh_state = {}
    /\ probe = NoProbe

\* ProxycurlAPI().get_profile(linkedin_url); `first` tells whether the
\* identifier had not been served before the call
MockGetProfile(linkedin_url) ==
    /\ probe' = [fn |-> "get_profile", url |-> linkedin_url,
                 first |-> linkedin_url \notin mock_refresh_state,
                 result |-> mock_get_profile(mock_refresh_state, linkedin_url).result]
    /\ mock_refresh_state' = mock_get_profile(mock_refresh_state, linkedin_url).state
    /\ UNCHANGED <<profiles, changes, now, op, tasks, started, issued>>

NextMock ==
    \/ \E u \in {EmptyStr, U1, U2} : MockGetProfile(u)
    \/ \E change_data \in StorageDicts : StorageRecord(change_data)
    \/ clear_storage

SpecMock == InitMock /\ [][NextMock]_vars

(***************************************************************************)
(* The two detection routines as functions of a pair of snapshots          *)
(***************************************************************************)
Titles == {EmptyStr, ProductManager, FounderCEO}
Companies == {EmptyStr, BigTech, StealthStartup}

Snapshot(title, company) ==
    [linkedin_url |-> U1, first_name |-> NameTest, last_name |-> NameUser,
     current_title |-> title, current_company |-> company,
     previous_title |-> EmptyStr, previous_company |-> EmptyStr,
     last_checked_date |-> 0, tracking_status |-> "Active",
     outreach_status |-> "Not contacted"]

Snapshots == {Snapshot(t, c) : t \in Titles, c \in Companies}

\* the lines of refresh_profile that compare the new snapshot with the
\* stored one and build the Change
inline_detect(old_profile, new, t) ==
    IF has_changed_roles(new, old_profile)
    THEN << from_profile_comparison(new.linkedin_url, old_profile[1], new,
                                    is_founder(new), t) >>
    ELSE <<>>

InitDetect ==
    /\ profiles = <<>>
    /\ changes = <<>>
    /\ now = 0
    /\ op = "idle"
    /\ tasks = <<>>
    /\ started = 0
    /\ issued = {}
    /\ mock_refresh_state = {}
    /\ \E old \in {<<>>} \cup {<<o>> : o \in Snapshots}, new \in Snapshots :
          probe = [fn |-> "detect", old |-> old, new |-> new]

\* ChangeDetector.detect_change and the inline comparison on the same pair
Detect ==
    /\ probe.fn = "detect"
    /\ probe' = [fn |-> "detected", old |-> probe.old, new |-> probe.new,
                 inline |-> inline_detect(probe.old, probe.new, now),
                 detector |-> detect_change(probe.old, <<probe.new>>, now)]
    /\ UNCHANGED <<profiles, changes, now, op, tasks, started, issued, mock_refresh_state>>

\* min(a, b)
Min(a, b) == IF a <= b THEN a ELSE b

\* ChangeDetector.analyze_change_significance
analyze_change_significance(change) ==
    LET founder == IF change.is_founder_change THEN 80 ELSE 0
        moved == IF is_title_change(change) /\ is_company_change(change) THEN 50
                 ELSE IF is_title_change(change) THEN 30
                 ELSE IF is_company_change(change) THEN 40
                 ELSE 0
        score == Min(founder + moved, 100)
    IN [is_significant |-> change.is_founder_change \/ score >= 50,
        score |-> score]

\* ChangeDetector.analyze_change_significance on the Change detect_change
\* returned
Analyze ==
    /\ probe.fn = "detected"
    /\ probe.detector # <<>>
    /\ probe' = [fn |-> "analyzed", change |-> probe.detector[1],
                 analysis |-> analyze_change_significance(probe.detector[1])]
    /\ UNCHANGED <<profiles, changes, now, op, tasks, started, issued, mock_refresh_state>>

NextDetect == Detect \/ Analyze

SpecDetect == InitDetect /\ [][NextDetect]_vars

(***************************************************************************)
(* Properties                                                              *)
(***************************************************************************)
Tracked(u) == \E k \in DOMAIN profiles : profiles[k].linkedin_url = u

\* coroutine i ran its first part in this step
Started(i) ==
    /\ i \in DOMAIN tasks /\ i \in DOMAIN tasks'
    /\ tasks[i].pc = "init" /\ tasks'[i].pc # "init"

\* coroutine i ran its second part in this step
Finished(i) ==
    /\ i \in DOMAIN tasks /\ i \in DOMAIN tasks'
    /\ tasks[i].pc = "fetching" /\ tasks'[i].pc = "done"

\* C1: add of a valid identifier that is already tracked returns
\* (True, "... already being tracked"), calls the provider not at all and
\* leaves the profile store as it was, with exactly one profile of that
\* identifier.
C1_AddIdempotent ==
    [][\A i \in 1..MaxTasks :
          (/\ Started(i)
           /\ tasks[i].kind = "add"
           /\ validate_linkedin_url(tasks[i].url)
           /\ Tracked(tasks[i].url))
          => /\ tasks'[i].pc = "done"
             /\ tasks'[i].ok
             /\ tasks'[i].msg = "already being tracked"
             /\ ~tasks'[i].fetched
             /\ profiles' = profiles
             /\ Cardinality({k \in DOMAIN profiles' :
                    profiles'[k].linkedin_url = tasks[i].url}) = 1]_vars

\* an add of a tracked identifier has returned, later than the snapshot
\* was stored
C1_Witness ==
    \E i \in DOMAIN tasks :
        /\ tasks[i].kind = "add"
        /\ tasks[i].pc = "done"
        /\ tasks[i].msg = "already being tracked"
        /\ \E k \in DOMAIN profiles :
              /\ profiles[k].linkedin_url = tasks[i].url
              /\ profiles[k].last_checked_date < now

UniqueIdentifiers ==
    \A j, k \in DOMAIN profiles :
        profiles[j].linkedin_url = profiles[k].linkedin_url => j = k

\* a step of a call in progress that changes the store either replaces one
\* entry by an entry of the same identifier, or appends an entry of an
\* identifier that was not stored
WriteInPlace ==
    (op # "idle" /\ profiles' # profiles)
    => \/ /\ Len(profiles') = Len(profiles)
          /\ \A k \in DOMAIN profiles :
                profiles'[k].linkedin_url = profiles[k].linkedin_url
       \/ /\ Len(profiles') = Len(profiles) + 1
          /\ SubSeq(profiles', 1, Len(profiles)) = profiles
          /\ ~Tracked(profiles'[Len(profiles')].linkedin_url)

\* C2: in every reachable state the store holds at most one profile per
\* identifier, and a write for an identifier that is present replaces its
\* entry in place without making the store longer.
C2_OneProfilePerIdentifier == []UniqueIdentifiers /\ [][WriteInPlace]_vars

\* two coroutines of one batch have both written the same identifier
C2_Witness ==
    \E i, j \in DOMAIN tasks :
        /\ i # j
        /\ tasks[i].url = tasks[j].url
        /\ tasks[i].pc = "done" /\ tasks[j].pc = "done"
        /\ tasks[i].ok /\ tasks[j].ok
        /\ tasks[i].payload # <<>> /\ tasks[j].payload # <<>>
        /\ Cardinality({k \in DOMAIN profiles :
               profiles[k].linkedin_url = tasks[i].url}) = 1

\* C3: no two refreshes of one identifier are both between their read of
\* the stored snapshot and their write-back.
C3_RefreshSerialized ==
    \A i, j \in DOMAIN tasks :
        (/\ i # j
         /\ tasks[i].url = tasks[j].url
         /\ tasks[i].kind = "refresh" /\ tasks[j].kind = "refresh"
         /\ tasks[i].existing # <<>> /\ tasks[j].existing # <<>>
         /\ tasks[i].pc = "fetching")
        => tasks[j].pc # "fetching"

\* coroutine i is a refresh of a tracked identifier that returned in this
\* step with the provider's answer
RefreshFinished(i) ==
    /\ Finished(i)
    /\ tasks[i].kind = "refresh"
    /\ tasks[i].existing # <<>>
    /\ tasks'[i].payload # <<>>

\* C4: a refresh of a tracked identifier that returns a Change makes the
\* change log longer by exactly one record, and the insight of that record
\* is the insight of the returned Change.
C4_OneRecordPerDetection ==
    [][\A i \in 1..MaxTasks :
          (RefreshFinished(i) /\ tasks'[i].change # <<>>)
          => /\ Len(changes') = Len(changes) + 1
             /\ changes'[Len(changes')].ai_insight = tasks'[i].change[1].ai_insight]_vars

\* the title contains one of the founder keywords, letter case ignored
ContainsFounderKeyword(title) ==
    \E k \in DOMAIN FounderKeywords : Contains(Lower(Chars(title)), FounderKeywords[k])

\* C5: a refresh of a tracked profile whose stored title or company differs
\* from the fetched record, the fetched title containing a founder keyword,
\* returns success with a Change that is founder-flagged, carries the stored
\* and the fetched title and company, and has a non-empty insight.
C5_FounderRefresh ==
    [][\A i \in 1..MaxTasks :
          (/\ RefreshFinished(i)
           /\ tasks'[i].payload[1].kind = "record"
           /\ \/ tasks'[i].payload[1].job_title # tasks[i].existing[1].current_title
              \/ tasks'[i].payload[1].company # tasks[i].existing[1].current_company
           /\ ContainsFounderKeyword(tasks'[i].payload[1].job_title))
          => /\ tasks'[i].ok
             /\ tasks'[i].change # <<>>
             /\ tasks'[i].change[1].is_founder_change
             /\ tasks'[i].change[1].old_title = tasks[i].existing[1].current_title
             /\ tasks'[i].change[1].old_company = tasks[i].existing[1].current_company
             /\ tasks'[i].change[1].new_title = tasks'[i].payload[1].job_title
             /\ tasks'[i].change[1].new_company = tasks'[i].payload[1].company
             /\ ~IsEmptyText(tasks'[i].change[1].ai_insight)]_vars

\* every record of the change log differs in title or in company
NoOpFree ==
    \A k \in DOMAIN changes :
        \/ changes[k].old_title # changes[k].new_title
        \/ changes[k].old_company # changes[k].new_company

\* a refresh that fetched the title and the company of the snapshot it read
\* returns no Change and leaves the change log as it was
SameRoleNoChange ==
    \A i \in 1..MaxTasks :
        (/\ RefreshFinished(i)
         /\ tasks'[i].payload[1].kind # "error"
         /\ tasks'[i].payload[1].job_title = tasks[i].existing[1].current_title
         /\ tasks'[i].payload[1].company = tasks[i].existing[1].current_company)
        => /\ tasks'[i].change = <<>>
           /\ changes' = changes

\* C6: every record of the change log has old_title # new_title or
\* old_company # new_company, and a refresh whose fetched title and company
\* equal those of the stored snapshot it compares with returns no Change and
\* appends nothing to the change log.
C6_NoOpNeverRecorded == []NoOpFree /\ [][SameRoleNoChange]_vars

\* the log holds a record, and a refresh that fetched the stored title and
\* company has returned without a Change
C6_Witness ==
    /\ changes # <<>>
    /\ \E i \in DOMAIN tasks :
          /\ tasks[i].kind = "refresh"
          /\ tasks[i].pc = "done"
          /\ tasks[i].existing # <<>>
          /\ tasks[i].payload # <<>>
          /\ tasks[i].payload[1].kind = "record"
          /\ tasks[i].payload[1].job_title = tasks[i].existing[1].current_title
          /\ tasks[i].payload[1].company = tasks[i].existing[1].current_company
          /\ tasks[i].msg = "No changes detected"

\* the rule of detection: a field differs and its new value is not empty
DetectionRule(old, new) ==
    \/ old.current_title # new.current_title /\ new.current_title # EmptyStr
    \/ old.current_company # new.current_company /\ new.current_company # EmptyStr

\* an optional Change carries the titles of the two snapshots
CarriesTitles(change, old, new) ==
    change # <<>> => /\ change[1].new_title = new.current_title
                     /\ change[1].old_title = old.current_title

\* C7: for an old snapshot that is present, the comparison of
\* refresh_profile and ChangeDetector.detect_change each report a change
\* exactly when the title differs and the new title is not empty, or the
\* company differs and the new company is not empty; a reported Change
\* carries the new and the old title of the snapshots.
C7_DetectionRule ==
    (probe.fn = "detected" /\ probe.old # <<>>)
    => /\ (probe.inline # <<>>) <=> DetectionRule(probe.old[1], probe.new)
       /\ (probe.detector # <<>>) <=> DetectionRule(probe.old[1], probe.new)
       /\ CarriesTitles(probe.inline, probe.old[1], probe.new)
       /\ CarriesTitles(probe.detector, probe.old[1], probe.new)

\* the company went from a value to the empty value, the title stayed, and
\* neither routine reported a change
C7_Witness ==
    /\ probe.fn = "detected"
    /\ probe.old # <<>>
    /\ probe.old[1].current_company # EmptyStr
    /\ probe.new.current_company = EmptyStr
    /\ probe.old[1].current_title = probe.new.current_title
    /\ probe.inline = <<>>
    /\ probe.detector = <<>>

\* the messages add_profile returns after it called the provider
AddMessages ==
    {"Error fetching profile", "Error adding profile", "Successfully added profile"}

\* a refresh of an identifier that is not tracked runs add_profile
DelegatesToAdd ==
    \A i \in 1..MaxTasks :
        (/\ Started(i)
         /\ tasks[i].kind = "refresh"
         /\ validate_linkedin_url(tasks[i].url)
         /\ ~Tracked(tasks[i].url))
        => /\ tasks'[i].path = "add"
           /\ tasks'[i].existing = <<>>
           /\ tasks'[i].change = <<>>
           /\ changes' = changes

\* the delegated add returns add_profile's result without a Change and
\* without a record in the log, and neither detection routine reports a
\* change for the fetched snapshot without an old one
FirstFetchNoChange ==
    \A i \in 1..MaxTasks :
        (/\ Finished(i)
         /\ tasks[i].kind = "refresh"
         /\ tasks[i].existing = <<>>)
        => /\ tasks'[i].msg \in AddMessages
           /\ tasks'[i].change = <<>>
           /\ changes' = changes
           /\ (tasks'[i].payload[1].kind = "record" /\ ~ProcessRaises(tasks'[i].payload[1]))
              => /\ detect_change(<<>>, <<process_linkedin_profile(tasks[i].url,
                                            tasks'[i].payload[1], now)>>, now) = <<>>
                 /\ inline_detect(<<>>, process_linkedin_profile(tasks[i].url,
                                            tasks'[i].payload[1], now), now) = <<>>

\* C8: a refresh of an identifier that is not tracked delegates to add,
\* returns no Change and leaves the change log unchanged, and detection
\* without an old snapshot reports nothing whatever was fetched, a founder
\* title included.
C8_FirstFetchNeverChange == [][DelegatesToAdd /\ FirstFetchNoChange]_vars

\* a refresh of an untracked identifier fetched a founder title and stored
\* it through add_profile, the log staying empty
C8_Witness ==
    /\ changes = <<>>
    /\ \E i \in DOMAIN tasks :
          /\ tasks[i].kind = "refresh"
          /\ tasks[i].path = "add"
          /\ tasks[i].pc = "done"
          /\ tasks[i].ok
          /\ tasks[i].msg = "Successfully added profile"
          /\ tasks[i].payload[1].job_title = FounderCEO
          /\ Tracked(tasks[i].url)

\* a stealth keyword occurs in the text, letter case ignored
ContainsStealthKeyword(text) ==
    \E k \in DOMAIN StealthKeywords : Contains(Lower(Chars(text)), StealthKeywords[k])

\* C9: the founder flag of a Change returned by refresh is true exactly when
\* the new title contains a founder keyword, or a stealth keyword occurs in
\* the new title or in the new company, letter case ignored.
C9_FounderFlag ==
    \A i \in DOMAIN tasks :
        tasks[i].change # <<>>
        => (tasks[i].change[1].is_founder_change
            <=> \/ ContainsFounderKeyword(tasks[i].change[1].new_title)
                \/ ContainsStealthKeyword(tasks[i].change[1].new_title)
                \/ ContainsStealthKeyword(tasks[i].change[1].new_company))

\* the provider call of coroutine i raised or handed back an error
ProviderFailed(i) ==
    \/ tasks[i].raised
    \/ tasks[i].payload # <<>> /\ tasks[i].payload[1].kind = "error"

\* the provider call of coroutine i handed back a payload without any field
EmptyAnswer(i) == tasks[i].payload # <<>> /\ tasks[i].payload[1].kind = "empty"

\* C10: when batch_refresh returns, the well-formed identifiers reported as
\* failed are exactly those whose provider call raised or returned an
\* error (an answer without any field may count either way), success +
\* failed is the number of inputs, founder_changes <= changes_detected <=
\* success, and the details are one per input in input order.
C10_BatchRefreshIsolation ==
    (AllDone /\ op = "batch_refresh")
    => /\ BatchRefreshResult.success + BatchRefreshResult.failed = Len(tasks)
       /\ BatchRefreshResult.founder_changes <= BatchRefreshResult.changes_detected
       /\ BatchRefreshResult.changes_detected <= BatchRefreshResult.success
       /\ Len(BatchRefreshResult.details) = Len(tasks)
       /\ \A i \in DOMAIN tasks :
             /\ BatchRefreshResult.details[i].url = tasks[i].url
             /\ (validate_linkedin_url(tasks[i].url) /\ ~EmptyAnswer(i))
                => (~BatchRefreshResult.details[i].success <=> ProviderFailed(i))

\* when batch_add returns: the three counters partition the input, the
\* details follow the input order, an identifier that is not well formed is
\* failed without a fetch, and every well-formed identifier the provider
\* answered with a sound record is stored
BatchAddPartition ==
    (AllDone /\ op = "batch_add")
    => /\ BatchAddResult.success + BatchAddResult.already_tracked
             + BatchAddResult.failed = Len(tasks)
       /\ Len(BatchAddResult.details) = Len(tasks)
       /\ \A i \in DOMAIN tasks :
             /\ BatchAddResult.details[i].url = tasks[i].url
             /\ BatchAddResult.details[i].success = tasks[i].ok
             /\ ~validate_linkedin_url(tasks[i].url)
                => (~BatchAddResult.details[i].success /\ ~tasks[i].fetched)
             /\ (/\ validate_linkedin_url(tasks[i].url)
                 /\ tasks[i].payload # <<>>
                 /\ tasks[i].payload[1].kind = "record"
                 /\ ~ProcessRaises(tasks[i].payload[1]))
                => (BatchAddResult.details[i].success /\ Tracked(tasks[i].url))

\* an add of an identifier that is not well formed returns at once, without
\* a provider call and without a store write
InvalidAddNoEffect ==
    \A i \in 1..MaxTasks :
        (Started(i) /\ tasks[i].kind = "add" /\ ~validate_linkedin_url(tasks[i].url))
        => /\ tasks'[i].pc = "done"
           /\ ~tasks'[i].ok
           /\ ~tasks'[i].fetched
           /\ profiles' = profiles
           /\ changes' = changes

\* C11: batch_add returns a summary whose counters success, already_tracked
\* and failed add up to the number of inputs and whose details are one per
\* input in input order; an identifier that fails validation is failed with
\* no provider fetch and no store write, and the others are still added.
C11_BatchAddIsolation == []BatchAddPartition /\ [][InvalidAddNoEffect]_vars

\* batch_add([valid_1, 'not-a-url', valid_2]) is about to return 2
\* successes and 1 failure, both valid identifiers stored
C11_Witness ==
    /\ AllDone
    /\ op = "batch_add"
    /\ Len(tasks) = 3
    /\ tasks[1].url = U1 /\ tasks[2].url = BadUrl /\ tasks[3].url = U2
    /\ BatchAddResult.success = 2
    /\ BatchAddResult.failed = 1
    /\ ~tasks[2].fetched
    /\ Tracked(U1) /\ Tracked(U2)

\* no two records of the change log share an id
UniqueChangeIds ==
    \A j, k \in DOMAIN changes :
        changes[j].change_id = changes[k].change_id => j = k

\* a record appended in this step gets an id that is larger than the id of
\* every record before it in the log and that was never handed out before
FreshChangeIds ==
    \A k \in DOMAIN changes' :
        k > Len(changes)
        => /\ \A j \in 1..(k - 1) : changes'[j].change_id[1] < changes'[k].change_id[1]
           /\ changes'[k].change_id[1] \notin issued

\* C12: no two records of the change log share an id, and every record
\* appended gets an id larger than every id before it and never assigned
\* before, a bulk clear of the store in between included.
C12_ChangeIdsNeverReused == []UniqueChangeIds /\ [][FreshChangeIds]_vars

\* coroutine i met a provider call that raised, or got back an error or a
\* payload without any field, in this step
ProviderFailedNow(i) ==
    \/ Started(i) /\ tasks'[i].raised
    \/ /\ Finished(i)
       /\ tasks'[i].payload[1].kind \in {"error", "empty"}

\* C13: an add or refresh whose provider call raises, returns an error or
\* returns an empty payload returns success False without a Change and
\* leaves the profile store and the change log as they were.
C13_ProviderFailureNoEffect ==
    [][\A i \in 1..MaxTasks :
          ProviderFailedNow(i)
          => /\ ~tasks'[i].ok
             /\ tasks'[i].change = <<>>
             /\ profiles' = profiles
             /\ changes' = changes]_vars

\* the outcomes in which the text generator gives no completion
GenFailures == {"unavailable", "prompt_raises", "raises"}

\* C14: a refresh that detects a founder-classified change while the text
\* generation fails returns success with the Change, the log gets a record
\* of it, and both the returned and the last recorded Change carry a
\* non-empty insight.
C14_InsightFailureInvisible ==
    [][\A i \in 1..MaxTasks :
          (/\ RefreshFinished(i)
           /\ tasks'[i].gen # <<>>
           /\ tasks'[i].gen[1] \in GenFailures)
          => /\ tasks'[i].ok
             /\ tasks'[i].change # <<>>
             /\ Len(changes') > Len(changes)
             /\ changes'[Len(changes')].linkedin_url = tasks[i].url
             /\ ~IsEmptyText(changes'[Len(changes')].ai_insight)
             /\ ~IsEmptyText(tasks'[i].change[1].ai_insight)]_vars

\* what a Python string is modelled by
TextKinds == {"empty", "mock", "api", "unable"}

\* C15: every call of the insight generator returns a string and lets no
\* exception out, whether the text generator is unavailable, raises or
\* answers.
C15_InsightNeverRaises ==
    probe.fn = "generate_founder_insight"
    => \A k \in DOMAIN probe.calls :
          /\ ~probe.calls[k].raised
          /\ probe.calls[k].ret.kind \in TextKinds

\* a call in which building the prompt raised has returned the "Unable to
\* generate insight" string
C15_Witness ==
    /\ probe.fn = "generate_founder_insight"
    /\ \E k \in DOMAIN probe.calls :
          /\ probe.calls[k].gen = "prompt_raises"
          /\ probe.calls[k].ret = UnableText
          /\ ~probe.calls[k].raised

\* the outcomes in which the canned sentence is returned
Fallbacks == {"unavailable", "raises"}

\* C16: with the text generator unavailable or raising, the call returns
\* the canned sentence whose index is the sum of the character codes of the
\* name modulo the number of sentences, so two calls for the same profile
\* return the same string whatever was called before and whatever the store
\* holds.
C16_DeterministicFallback ==
    probe.fn = "generate_founder_insight"
    => \A j, k \in DOMAIN probe.calls :
          (probe.calls[k].gen \in Fallbacks)
          => /\ probe.calls[k].ret.kind = "mock"
             /\ probe.calls[k].ret.idx =
                   SumOrd(Chars(probe.calls[k].profile_data.first_name)
                          \o Chars(probe.calls[k].profile_data.last_name)) % NumMockInsights
             /\ (/\ probe.calls[j].gen \in Fallbacks
                 /\ probe.calls[j].profile_data = probe.calls[k].profile_data)
                => probe.calls[j].ret = probe.calls[k].ret

\* two fallback calls for the same profile, the second on a store that the
\* first had changed, have returned the same sentence
C16_Witness ==
    /\ probe.fn = "generate_founder_insight"
    /\ Len(probe.calls) >= 2
    /\ probe.calls[1].gen = "unavailable"
    /\ probe.calls[2].gen = "raises"
    /\ probe.calls[1].profile_data = probe.calls[2].profile_data
    /\ probe.calls[1].log_before # probe.calls[2].log_before
    /\ probe.calls[1].ret = probe.calls[2].ret
    /\ probe.calls[1].ret.idx = 3

\* C17: a call of the insight generator leaves the change log as it was.
C17_InsightNoSideEffect ==
    probe.fn = "generate_founder_insight"
    => \A k \in DOMAIN probe.calls :
          probe.calls[k].log_after = probe.calls[k].log_before

\* C18: during batch_add and batch_refresh the number of provider fetches
\* in flight never exceeds the size of the counting gate, 1 by default.
C18_FetchesGated ==
    (op \in {"batch_add", "batch_refresh"})
    => Cardinality({i \in DOMAIN tasks : tasks[i].pc = "fetching"}) <= GateSize

\* a refresh of a tracked identifier that succeeds leaves the normalized
\* fetched record, stamped with the time of the write, as the stored profile
RefreshWritesBack ==
    \A i \in 1..MaxTasks :
        (RefreshFinished(i) /\ tasks'[i].ok)
        => get_profile(profiles', tasks[i].url)
           = <<process_linkedin_profile(tasks[i].url, tasks'[i].payload[1], now)>>

\* a write over a stored profile never takes its timestamp backwards
TimestampMonotone ==
    \A j \in DOMAIN profiles, k \in DOMAIN profiles' :
        profiles'[k].linkedin_url = profiles[j].linkedin_url
        => profiles'[k].last_checked_date >= profiles[j].last_checked_date

IsPrefix(log1, log2) ==
    /\ Len(log1) <= Len(log2)
    /\ SubSeq(log2, 1, Len(log1)) = log1

\* the step is a bulk clear
ClearStep ==
    /\ op = "idle" /\ op' = "idle"
    /\ profiles' = <<>>
    /\ changes' = <<>>
    /\ probe' = probe

\* C20: every step other than a bulk clear keeps the change log as an
\* initial part of the log after it: add, refresh, the batch operations and
\* the read of the recent founder changes remove, reorder and modify
\* nothing.
C20_LogAppendOnly == [][IsPrefix(changes, changes') \/ ClearStep]_vars

\* the read has returned the founder changes latest first, in another order
\* than the log keeps them
C20_Witness ==
    /\ probe.fn = "get_recent_founder_changes"
    /\ Len(probe.result) >= 2
    /\ probe.result[1].detected_date > probe.result[2].detected_date
    /\ probe.result[1] = changes[Len(changes)]

\* the number in a date field, zero when the field is missing
DateValue(v) == IF Truthy(v) THEN IntOf(v) ELSE 0

\* the entry has an end date
HasEndDate(e) == Truthy(e.end_year) \/ Truthy(e.end_month)

\* the date an entry is ranked by: its end date, its start date when it has
\* no end date
RankDate(e) ==
    IF HasEndDate(e) THEN <<DateValue(e.end_year), DateValue(e.end_month)>>
    ELSE <<DateValue(e.start_year), DateValue(e.start_month)>>

\* the first entry of the list with the latest date under the given ranking
\* is at index i
FirstLatest(list, i, byStart) ==
    LET date(e) == IF byStart THEN <<DateValue(e.start_year), DateValue(e.start_month)>>
                   ELSE RankDate(e)
    IN /\ \A j \in DOMAIN list : ~KeyLess(date(list[i]), date(list[j]))
       /\ \A j \in 1..(i - 1) : KeyLess(date(list[j]), date(list[i]))

\* C21: the previous title and company are those of the non-current entry
\* with the most recent end date (year, then month), the start date counting
\* only for an entry without end date, the first entry winning a tie; they
\* are empty strings when there is no non-current entry.
C21_PreviousRole ==
    (probe.fn = "processed" /\ ~probe.raised)
    => LET past == PastExperiences(probe.data.experiences)
       IN IF past = <<>>
          THEN /\ probe.profile[1].previous_title = EmptyStr
               /\ probe.profile[1].previous_company = EmptyStr
          ELSE \A i \in DOMAIN past :
                  FirstLatest(past, i, FALSE)
                  => /\ probe.profile[1].previous_title = past[i].title
                     /\ probe.profile[1].previous_company = past[i].company

\* C22: normalization of a raw record without error marker never raises and
\* returns a profile, whatever its experience date fields hold.
C22_NormalizeNeverRaises ==
    probe.fn = "processed" => (~probe.raised /\ probe.profile # <<>>)

\* the entries without end date
OpenEnded(exps) ==
    SelectSeq(exps, LAMBDA e : ~HasEndDate(e))

\* C23: the current title and company are the top-level job fields when the
\* record supplies them, and otherwise those of the open-ended experience
\* entry with the most recent start date, the first one on a tie.
C23_CurrentRole ==
    (probe.fn = "processed" /\ ~probe.raised)
    => IF probe.data.job_title # EmptyStr
       THEN /\ probe.profile[1].current_title = probe.data.job_title
            /\ probe.profile[1].current_company = probe.data.company
       ELSE \A i \in DOMAIN OpenEnded(probe.data.experiences) :
               FirstLatest(OpenEnded(probe.data.experiences), i, TRUE)
               => /\ probe.profile[1].current_title = OpenEnded(probe.data.experiences)[i].title
                  /\ probe.profile[1].current_company = OpenEnded(probe.data.experiences)[i].company

\* C24: the score of a Change is min(100, F + D), F being 80 for a founder
\* change and D 50, 30 or 40 for both fields, only the title or only the
\* company differing between old and new; the Change is significant exactly
\* when the score is at least 50 or it is a founder change.
C24_SignificanceScore ==
    probe.fn = "analyzed"
    => LET c == probe.change
           F == IF c.is_founder_change THEN 80 ELSE 0
           titleDiffers == c.old_title # c.new_title
           companyDiffers == c.old_company # c.new_company
           D == IF titleDiffers /\ companyDiffers THEN 50
                ELSE IF titleDiffers THEN 30
                ELSE IF companyDiffers THEN 40
                ELSE 0
       IN /\ probe.analysis.score = Min(100, F + D)
          /\ probe.analysis.is_significant
                <=> (probe.analysis.score >= 50 \/ c.is_founder_change)

\* C29: the comparison inside refresh and ChangeDetector.detect_change
\* report a change for the same pairs of snapshots, with the same titles,
\* companies and founder flag.
C29_DetectionPathsAgree ==
    probe.fn = "detected"
    => /\ (probe.inline = <<>>) <=> (probe.detector = <<>>)
       /\ (probe.inline # <<>> /\ probe.detector # <<>>)
          => /\ probe.inline[1].old_title = probe.detector[1].old_title
             /\ probe.inline[1].new_title = probe.detector[1].new_title
             /\ probe.inline[1].old_company = probe.detector[1].old_company
             /\ probe.inline[1].new_company = probe.detector[1].new_company
             /\ probe.inline[1].is_founder_change = probe.detector[1].is_founder_change

\* the characters the profile part of an identifier may consist of
AsciiSlugChars == Range(UpperCase) \cup Range(LowerCase) \cup Digits \cup {"_", "-"}

\* the parts are those of a well-formed identifier: http or https, an
\* optional www., linkedin.com/in/, one or more allowed characters, an
\* optional slash, nothing before and nothing after
WellFormed(p) ==
    /\ p.lead = <<>>
    /\ p.scheme \in {<<"h","t","t","p">>, <<"h","t","t","p","s">>}
    /\ p.sep = <<":","/","/">>
    /\ p.host = <<"l","i","n","k","e","d","i","n",".","c","o","m","/","i","n","/">>
    /\ p.slug # <<>>
    /\ Range(p.slug) \subseteq AsciiSlugChars
    /\ p.tail \in {<<>>, <<"/">>}

\* C25: validate_linkedin_url answers true exactly for the well-formed
\* identifiers, false for the empty string, and changes no state.
C25_UrlValidation ==
    probe.fn = "validated"
    => /\ probe.valid <=> WellFormed(probe.parts)
       /\ UrlText(probe.parts) = <<>> => ~probe.valid
       /\ profiles = <<>> /\ changes = <<>>

\* C26: when batch_add returns, of two occurrences of one well-formed
\* identifier, the provider not having failed for the earlier one, at most
\* one was fetched and at most one is reported as newly added; when the
\* earlier one was added, the later one is reported as already tracked and
\* the stored profile is the one of the earlier fetch.
C26_BatchAddDuplicates ==
    (AllDone /\ op = "batch_add")
    => \A i, j \in DOMAIN tasks :
          (/\ i < j
           /\ tasks[i].url = tasks[j].url
           /\ validate_linkedin_url(tasks[i].url)
           /\ ~ProviderFailed(i))
          => /\ ~(tasks[i].fetched /\ tasks[j].fetched)
             /\ ~(/\ tasks[i].msg = "Successfully added profile"
                  /\ tasks[j].msg = "Successfully added profile")
             /\ tasks[i].msg = "Successfully added profile"
                => /\ tasks[j].msg = "already being tracked"
                   /\ get_profile(profiles, tasks[i].url)[1].current_title
                         = tasks[i].payload[1].job_title

\* a call of batch_refresh with an explicit list starts one refresh per
\* element of that list and no other
RefreshesGivenList ==
    \A list \in BatchInputs :
        CallBatchRefresh(<<list>>)
        => [i \in DOMAIN tasks' |-> tasks'[i].url] = list

\* C27: batch_refresh called with an explicit list refreshes the
\* identifiers of that list only; called with the empty list it starts no
\* refresh, so that nothing is fetched or written and the summary is all
\* zero.  Only a call without list refreshes all tracked profiles.
C27_ExplicitListOnly == [][RefreshesGivenList]_vars

\* records k and l of the log are consecutive records of one identifier
ConsecutiveRecords(k, l) ==
    /\ k < l
    /\ changes[k].linkedin_url = changes[l].linkedin_url
    /\ \A m \in (k + 1)..(l - 1) : changes[m].linkedin_url # changes[k].linkedin_url

\* C28: the Change records of one identifier form a chain: the old title
\* and company of each record are the new title and company of the record
\* of that identifier before it.
C28_ChangeChain ==
    \A k, l \in DOMAIN changes :
        ConsecutiveRecords(k, l)
        => /\ changes[l].old_title = changes[k].new_title
           /\ changes[l].old_company = changes[k].new_company

\* the answer of the last get_profile call is the record the call counts
\* for: the non-founder record on the first call for the identifier, the
\* founder record on every later one, and the identifier is marked as seen
MockAnswer ==
    (probe.fn = "get_profile" /\ probe.url # EmptyStr)
    => /\ probe.url \in mock_refresh_state
       /\ IF probe.first
          THEN /\ Len(probe.result.experiences) = 1
               /\ probe.result.experiences[1].title = ProductManager
               /\ probe.result.experiences[1].company = BigTech
          ELSE /\ probe.result.experiences[1].title = FounderCEO
               /\ probe.result.experiences[1].company = TestStartup

\* no step, a clear of the store included, takes an identifier out of the
\* seen ones
MockStateGrows == mock_refresh_state \subseteq mock_refresh_state'

\* C30: without credential the first get_profile call for an identifier
\* returns the non-founder record (one experience, Product Manager at
\* BigTech) and every later call the founder record (Founder & CEO at Test
\* Startup); an identifier once seen stays seen, also across a clear of the
\* store.
C30_MockProvider == []MockAnswer /\ [][MockStateGrows]_vars

\* a later call for an identifier returned the founder record after
\* records were written to the store and the store was cleared
C30_Witness ==
    /\ probe.fn = "get_profile"
    /\ probe.url = U1
    /\ ~probe.first
    /\ probe.result.experiences[1].title = FounderCEO
    /\ issued # {}
    /\ changes = <<>>
    /\ mock_refresh_state = {U1, U2}

====
